---- MODULE Spec2Model ----
(***************************************************************************)
(* Model of the host-side firmware updater (src/main.rs): the lazy page    *)
(* builder over the UF2 blocks of the input file, send_command (frame,     *)
(* 16-byte chunk writes, one read of at most 32 bytes, COBS + postcard     *)
(* decode of the reply) and the command sequence of main.  The serial      *)
(* port is the environment: every write call may fail, every read call     *)
(* may time out or return any buffer of the bounded reply alphabet.        *)
(***************************************************************************)
EXTENDS Integers, Sequences, FiniteSets, TLC

\* ------------------------------------------------------------------ bounds
\* largest number of 512-byte blocks in the input file
MaxBlocks == 2
\* longest reply buffer enumerated byte by byte
MaxReplyLen == 2
\* number of filler bytes that follow a reply frame in the long device stream
LongTail == 31

\* ------------------------------------------------------- program constants
\* the page length the block must have (b.data_len != 256)
PageLen == 256
\* ser.chunks(16)
ChunkLen == 16
\* vec![0; 32]
RecvBufLen == 32
\* default_value of --offset
DefaultOffset == 268451840

\* ------------------------------------------------------------ small helpers
Min(a, b) == IF a < b THEN a ELSE b

Take(s, n) == SubSeq(s, 1, Min(n, Len(s)))

Fill(b, n) == [i \in 1..n |-> b]

\* F applied to the value of v: v is computed once, before F is applied
Strict(v, F(_)) == CHOOSE y \in {F(x) : x \in {v}} : TRUE

RECURSIVE BitXor(_, _)
BitXor(a, b) ==
    IF a = 0 THEN b
    ELSE IF b = 0 THEN a
    ELSE ((a + b) % 2) + 2 * BitXor(a \div 2, b \div 2)

\* position of the first element of s equal to v, Len(s)+1 when there is none
RECURSIVE Position(_, _, _)
Position(s, v, i) ==
    IF i > Len(s) THEN i
    ELSE IF s[i] = v THEN i
    ELSE Position(s, v, i + 1)

\* ---------------------------------------------------------------- CRC_8_SMBUS
\* poly 0x07, init 0x00, no reflection, xorout 0x00
RECURSIVE Crc8Bits(_, _)
Crc8Bits(c, n) ==
    IF n = 0 THEN c
    ELSE Strict(IF c >= 128 THEN BitXor((c * 2) % 256, 7) ELSE c * 2,
                LAMBDA shifted : Crc8Bits(shifted, n - 1))

\* the bytes data[lo..hi] folded into the register c, in order
RECURSIVE Crc8From(_, _, _, _)
Crc8From(data, lo, hi, c) ==
    IF lo > hi THEN c
    ELSE IF lo = hi
    THEN Strict(BitXor(c, data[lo]), LAMBDA x : Crc8Bits(x, 8))
    ELSE Strict((lo + hi) \div 2, LAMBDA mid :
             Strict(Crc8From(data, lo, mid, c), LAMBDA left :
                 Crc8From(data, mid + 1, hi, left)))

Crc8(data) == Strict(data, LAMBDA d : Crc8From(d, 1, Len(d), 0))

\* ------------------------------------------------------------ command model
Ack == "Ack"
Nack == "Nack"
NoResponse == "NoResponse"
CouldntDeserialize == "CouldntDeserialize"

Responses == {Ack, Nack}
FlasherErrors == {NoResponse, CouldntDeserialize}

Cmd(t) == [tag |-> t, addr |-> 0, data |-> <<>>, crc |-> 0]

Hello == Cmd("Hello")
PrepareForUpdate == Cmd("PrepareForUpdate")
FinishedWriting == Cmd("FinishedWriting")
MarkUpdated == Cmd("MarkUpdated")
WritePage(a, d, c) == [tag |-> "WritePage", addr |-> a, data |-> d, crc |-> c]

\* index of the variant in the declaration order of SerialFlasherCommand
VariantIndex(t) ==
    CASE t = "Hello" -> 0
      [] t = "PrepareForUpdate" -> 1
      [] t = "WritePage" -> 2
      [] t = "FinishedWriting" -> 3
      [] t = "CompareChecksum" -> 4
      [] t = "MarkUpdated" -> 5

\* ------------------------------------------------------------------ postcard
\* unsigned LEB128 varint, as postcard writes u32 / usize values
RECURSIVE Varint(_)
Varint(n) ==
    IF n < 128 THEN <<n>>
    ELSE <<128 + (n % 128)>> \o Varint(n \div 128)

\* the postcard serialization of a command, before byte stuffing
Serialize(cmd) ==
    IF cmd.tag = "WritePage"
    THEN Varint(VariantIndex(cmd.tag)) \o Varint(cmd.addr) \o cmd.data \o <<cmd.crc>>
    ELSE Varint(VariantIndex(cmd.tag))

\* ---------------------------------------------------------------------- COBS
\* the encoder of the Cobs flavor, one byte pushed at a time: out is what is
\* settled, run the non-zero bytes whose code byte is still open; a zero
\* closes the run, and so does the 254th byte of a run (code 0xFF)
CobsPush(st, b) ==
    IF b = 0
    THEN [out |-> st.out \o <<Len(st.run) + 1>> \o st.run, run |-> <<>>]
    ELSE IF Len(st.run) + 1 = 254
    THEN [out |-> st.out \o <<255>> \o st.run \o <<b>>, run |-> <<>>]
    ELSE [out |-> st.out, run |-> Append(st.run, b)]

\* the bytes data[lo..hi] pushed in order
RECURSIVE CobsPushAll(_, _, _, _)
CobsPushAll(data, lo, hi, st) ==
    IF lo > hi THEN st
    ELSE IF lo = hi THEN CobsPush(st, data[lo])
    ELSE Strict((lo + hi) \div 2, LAMBDA mid :
             Strict(CobsPushAll(data, lo, mid, st), LAMBDA left :
                 CobsPushAll(data, mid + 1, hi, left)))

\* finalize: the code of the last run is always written
CobsEncode(data) ==
    Strict(data, LAMBDA d :
        Strict(CobsPushAll(d, 1, Len(d), [out |-> <<>>, run |-> <<>>]),
               LAMBDA st : st.out \o <<Len(st.run) + 1>> \o st.run))

\* postcard::to_stdvec_cobs: the stuffed bytes and the terminator
ToStdvecCobs(cmd) == CobsEncode(Serialize(cmd)) \o <<0>>

\* cobs::decode_in_place: stops at the first terminator, if any; the result
\* is [ok, out]
RECURSIVE CobsDecodeFrom(_, _, _, _)
CobsDecodeFrom(buf, srcEnd, i, out) ==
    IF i >= srcEnd + 1 THEN [ok |-> TRUE, out |-> out]
    ELSE LET code == buf[i]
             next == i + code
         IN  IF (i - 1) + code > srcEnd /\ code # 1
             THEN [ok |-> FALSE, out |-> <<>>]
             ELSE LET copied == out \o SubSeq(buf, i + 1, next - 1)
                  IN  CobsDecodeFrom(buf, srcEnd, next,
                          IF code # 255 /\ next - 1 < srcEnd
                          THEN Append(copied, 0) ELSE copied)

CobsDecode(buf) == CobsDecodeFrom(buf, Position(buf, 0, 1) - 1, 1, <<>>)

\* postcard's try_take_varint_u32 on the first bytes of s: at most 5 bytes,
\* the fifth at most 0x0F; the result is [ok, val]
RECURSIVE TakeVarintU32(_, _, _)
TakeVarintU32(s, i, acc) ==
    IF i > 5 \/ i > Len(s) THEN [ok |-> FALSE, val |-> 0]
    ELSE LET v == s[i]
             out == acc + (v % 128) * (128 ^ (i - 1))
         IN  IF v < 128
             THEN IF i = 5 /\ v > 15 THEN [ok |-> FALSE, val |-> 0]
                  ELSE [ok |-> TRUE, val |-> out]
             ELSE TakeVarintU32(s, i + 1, out)

\* from_bytes::<SerialFlasherResponse>: the variant index selects Ack or Nack,
\* bytes after the value are not looked at; "Err" when there is no value
FromBytes(s) ==
    LET v == TakeVarintU32(s, 1, 0)
    IN  IF ~v.ok THEN "Err"
        ELSE IF v.val = 0 THEN Ack
        ELSE IF v.val = 1 THEN Nack
        ELSE "Err"

\* postcard::from_bytes_cobs
FromBytesCobs(buf) ==
    LET d == CobsDecode(buf)
    IN  IF d.ok THEN FromBytes(d.out) ELSE "Err"

\* ------------------------------------------------------------- the input file
\* target addresses of the blocks: below, at and above the offset
Addrs == {DefaultOffset - PageLen, DefaultOffset, DefaultOffset + PageLen}
\* data_len of the blocks
DataLens == {PageLen, 128}
\* the payloads: every byte of b.data[..256] has the same value
Payloads == {Fill(170, PageLen)}

\* what uftwo::Block::from_bytes makes of a 512-byte chunk; parses = FALSE
\* is a chunk it rejects
ParsedBlocks ==
    [parses : {TRUE}, target_addr : Addrs, data_len : DataLens, data : Payloads]

BadBlock ==
    [parses |-> FALSE, target_addr |-> 0, data_len |-> 0, data |-> <<>>]

SourceBlocks == ParsedBlocks \cup {BadBlock}

\* buffer.chunks_exact(512): the files of at most MaxBlocks whole blocks
Files == UNION {[1..n -> SourceBlocks] : n \in 0..MaxBlocks}

\* the frame the device sends for a response: the variant index, stuffed, and
\* the terminator
ResponseFrame(r) == CobsEncode(Varint(IF r = Ack THEN 0 ELSE 1)) \o <<0>>

\* ------------------------------------------------------------- the transport
ReplyBytes == {0, 1, 2, 3}

ShortStreams == UNION {[1..n -> ReplyBytes] : n \in 0..MaxReplyLen}

\* a reply frame followed by more bytes than the receive buffer holds
LongStream == <<1, 1, 0>> \o Fill(1, LongTail)

\* a frame that holds the variant index 0 written as a two-byte varint
TwoByteVarintStream == <<2, 128, 1, 1, 0>>

\* what the device may have put on the line when the read is made: any short
\* byte string, the two reply frames, and the two streams above
DeviceStreams ==
    ShortStreams \cup {ResponseFrame(Ack), ResponseFrame(Nack),
                       LongStream, TwoByteVarintStream}

NoRead == [kind |-> "none", buf |-> <<>>]

\* no port.write has returned a count
NoCount == -1

\* port.write(chunk) that returns Ok(n): the port took none, a part or all of
\* the bytes of the chunk
WriteCounts(chunk) == {0, Len(chunk) \div 2, Len(chunk)}

\* port.read(serial_buf.as_mut_slice()): a timeout or another error, or
\* Ok(len) with the first len bytes of the line, len at most the buffer length
ReadResults ==
    {[kind |-> "err", buf |-> <<>>]} \cup
    UNION {{[kind |-> "ok", buf |-> Take(s, n)] :
                n \in 0..Min(Len(s), RecvBufLen)} : s \in DeviceStreams}

\* -------------------------------------------------------------------- state
VARIABLES
    blocks,     \* the parsed blocks of the input file, in file order
    offset,     \* opt.offset
    pc,         \* the statement of main that runs or comes next
    exit,       \* "running", "returned" (main ended) or "panicked"
    panicMsg,   \* the message of the panic, "" when there is none
    it,         \* number of blocks the write_commands iterator has consumed
    command,    \* the loop variable of the for loop, with its source block
    sc,         \* position inside send_command: "idle", "write", "read", "ret"
    cmd,        \* the cmd argument of the running send_command
    ser,        \* the encoded frame
    chunkNo,    \* index of the next chunk to write
    written,    \* the count the last port.write of the chunk loop returned
    rd,         \* the result of port.read
    ret,        \* the value send_command returned
    sent,       \* history: the commands send_command was called with
    replies,    \* history: what each finished send_command returned
    wire        \* history: the write and read calls made on the port

vars == <<blocks, offset, pc, exit, panicMsg, it, command, sc, cmd, ser,
          chunkNo, written, rd, ret, sent, replies, wire>>

input == <<blocks, offset>>
mainVars == <<pc, exit, panicMsg, it, command>>
callVars == <<sc, cmd, ser, chunkNo, written, rd, ret>>
history == <<sent, replies, wire>>

NoCommand == [cmd |-> Cmd("None"), blk |-> 0]

Init ==
    /\ blocks \in Files
    /\ offset = DefaultOffset
    /\ pc = "Hello"
    /\ exit = "running"
    /\ panicMsg = ""
    /\ it = 0
    /\ command = NoCommand
    /\ sc = "idle"
    /\ cmd = Cmd("None")
    /\ ser = <<>>
    /\ chunkNo = 0
    /\ written = NoCount
    /\ rd = NoRead
    /\ ret = "None"
    /\ sent = <<>>
    /\ replies = <<>>
    /\ wire = <<>>

\* -------------------------------------------------------------- page builder
\* BuildPage with the offset test off by one: the block at the offset is dropped
BuildPage_DropAtOffset(b, off) ==
    IF off >= b.target_addr
    THEN [kind |-> "none", cmd |-> Cmd("None"), msg |-> ""]
    ELSE IF b.data_len # PageLen
    THEN [kind |-> "panic", cmd |-> Cmd("None"), msg |-> "Non-256 length block"]
    ELSE [kind |-> "some",
          cmd |-> WritePage(b.target_addr - off, Take(b.data, PageLen),
                            Crc8(Take(b.data, PageLen))),
          msg |-> ""]

\* BuildPage without the offset test: the subtraction is made for every block
BuildPage_NoOffsetTest(b, off) ==
    IF b.data_len # PageLen
    THEN [kind |-> "panic", cmd |-> Cmd("None"), msg |-> "Non-256 length block"]
    ELSE [kind |-> "some",
          cmd |-> WritePage(b.target_addr - off, Take(b.data, PageLen),
                            Crc8(Take(b.data, PageLen))),
          msg |-> ""]

\* BuildPage that drops a block of another length instead of panicking
BuildPage_SkipsShort(b, off) ==
    IF off > b.target_addr \/ b.data_len # PageLen
    THEN [kind |-> "none", cmd |-> Cmd("None"), msg |-> ""]
    ELSE [kind |-> "some",
          cmd |-> WritePage(b.target_addr - off, Take(b.data, PageLen),
                            Crc8(Take(b.data, PageLen))),
          msg |-> ""]

\* the closure of the second map, for a parsed block b: None for a block
\* below the offset, a panic for a block whose data_len is not 256, else
\* Some(WritePage(target_addr - offset, data, crc))
BuildPage(b, off) ==
    IF off > b.target_addr
    THEN [kind |-> "none", cmd |-> Cmd("None"), msg |-> ""]
    ELSE IF b.data_len # PageLen
    THEN [kind |-> "panic", cmd |-> Cmd("None"), msg |-> "Non-256 length block"]
    ELSE [kind |-> "some",
          cmd |-> WritePage(b.target_addr - off, Take(b.data, PageLen),
                            Crc8(Take(b.data, PageLen))),
          msg |-> ""]

\* IterNext that does not move past the block it yields
RECURSIVE IterNext_Again(_, _, _)
IterNext_Again(bs, off, i) ==
    IF i >= Len(bs)
    THEN [kind |-> "end", cmd |-> Cmd("None"), blk |-> 0, it |-> i, msg |-> ""]
    ELSE IF ~bs[i + 1].parses
    THEN [kind |-> "panic", cmd |-> Cmd("None"), blk |-> i + 1, it |-> i + 1,
          msg |-> "Gotta be able to parse chunk"]
    ELSE Strict(BuildPage(bs[i + 1], off), LAMBDA p :
             IF p.kind = "none" THEN IterNext_Again(bs, off, i + 1)
             ELSE [kind |-> p.kind, cmd |-> p.cmd, blk |-> i + 1, it |-> i,
                   msg |-> p.msg])

\* IterNext over commands that were all built before the loop started: a
\* block that panics anywhere in the rest of the file panics at once
RECURSIVE IterNext_Eager(_, _, _)
IterNext_Eager(bs, off, i) ==
    LET bad == {j \in (i + 1)..Len(bs) :
                    ~bs[j].parses \/ BuildPage(bs[j], off).kind = "panic"}
    IN  IF bad # {}
        THEN LET j == CHOOSE x \in bad : \A y \in bad : x <= y
             IN  [kind |-> "panic", cmd |-> Cmd("None"), blk |-> j, it |-> j,
                  msg |-> IF bs[j].parses THEN "Non-256 length block"
                          ELSE "Gotta be able to parse chunk"]
        ELSE IF i >= Len(bs)
        THEN [kind |-> "end", cmd |-> Cmd("None"), blk |-> 0, it |-> i, msg |-> ""]
        ELSE Strict(BuildPage(bs[i + 1], off), LAMBDA p :
                 IF p.kind = "none" THEN IterNext_Eager(bs, off, i + 1)
                 ELSE [kind |-> p.kind, cmd |-> p.cmd, blk |-> i + 1,
                       it |-> i + 1, msg |-> p.msg])

\* write_commands.next() when i blocks are consumed: the blocks are parsed and
\* mapped one at a time, flatten drops the None items; the result tells the
\* item, the block it comes from and the number of blocks consumed
RECURSIVE IterNext(_, _, _)
IterNext(bs, off, i) ==
    IF i >= Len(bs)
    THEN [kind |-> "end", cmd |-> Cmd("None"), blk |-> 0, it |-> i, msg |-> ""]
    ELSE IF ~bs[i + 1].parses
    THEN [kind |-> "panic", cmd |-> Cmd("None"), blk |-> i + 1, it |-> i + 1,
          msg |-> "Gotta be able to parse chunk"]
    ELSE Strict(BuildPage(bs[i + 1], off), LAMBDA p :
             IF p.kind = "none" THEN IterNext(bs, off, i + 1)
             ELSE [kind |-> p.kind, cmd |-> p.cmd, blk |-> i + 1, it |-> i + 1,
                   msg |-> p.msg])

\* --------------------------------------------------------------- send_command
\* NumChunks without the last, shorter chunk
NumChunks_Floor(frame) == Len(frame) \div ChunkLen

\* ser.chunks(16): the c-th chunk of the frame
NumChunks(frame) == (Len(frame) + ChunkLen - 1) \div ChunkLen

Chunk(frame, c) ==
    SubSeq(frame, (c - 1) * ChunkLen + 1, Min(c * ChunkLen, Len(frame)))

\* ReadOutcome that takes a reply it cannot decode for a Nack
ReadOutcome_Lenient(r) ==
    IF r.kind = "ok"
    THEN IF FromBytesCobs(r.buf) \in Responses
         THEN FromBytesCobs(r.buf)
         ELSE Nack
    ELSE NoResponse

\* lines 143-155: what send_command returns for the result of the read
ReadOutcome(r) ==
    IF r.kind = "ok"
    THEN IF FromBytesCobs(r.buf) \in Responses
         THEN FromBytesCobs(r.buf)
         ELSE CouldntDeserialize
    ELSE NoResponse

Panic(msg) ==
    /\ exit' = "panicked"
    /\ panicMsg' = msg
    /\ pc' = "Exit"

\* the call send_command(c, &mut port) made by main for source block b:
\* the frame is serialized, the chunk loop comes next
Call(c, b) ==
    /\ sc = "idle"
    /\ exit = "running"
    /\ sc' = "write"
    /\ cmd' = c
    /\ ser' = ToStdvecCobs(c)
    /\ chunkNo' = 1
    /\ written' = NoCount
    /\ rd' = NoRead
    /\ ret' = "None"
    /\ sent' = Append(sent, [cmd |-> c, blk |-> b])
    /\ UNCHANGED <<replies, wire>>

\* ChunkWritten that offers the chunk again when the port took less than all
\* of it
ChunkWritten_Resend ==
    /\ wire' = Append(wire, [op |-> "write", k |-> Len(sent),
                             bytes |-> Chunk(ser, chunkNo)])
    /\ \E n \in WriteCounts(Chunk(ser, chunkNo)) :
          /\ written' = n
          /\ chunkNo' = IF n < Len(Chunk(ser, chunkNo)) THEN chunkNo
                        ELSE chunkNo + 1
    /\ sc' = IF chunkNo' > NumChunks(ser) THEN "read" ELSE "write"
    /\ UNCHANGED mainVars

\* a round of the chunk loop whose port.write returns Ok(n): the chunk was
\* offered, the count n is dropped, the loop goes on or ends
ChunkWritten ==
    /\ wire' = Append(wire, [op |-> "write", k |-> Len(sent),
                             bytes |-> Chunk(ser, chunkNo)])
    /\ \E n \in WriteCounts(Chunk(ser, chunkNo)) : written' = n
    /\ chunkNo' = chunkNo + 1
    /\ sc' = IF chunkNo + 1 > NumChunks(ser) THEN "read" ELSE "write"
    /\ UNCHANGED mainVars

\* ChunkWriteFailed with the error dropped: the loop goes on
ChunkWriteFailed_Ignored ==
    /\ wire' = Append(wire, [op |-> "wfail", k |-> Len(sent),
                             bytes |-> Chunk(ser, chunkNo)])
    /\ chunkNo' = chunkNo + 1
    /\ written' = NoCount
    /\ sc' = IF chunkNo + 1 > NumChunks(ser) THEN "read" ELSE "write"
    /\ UNCHANGED mainVars

\* a round of the chunk loop whose port.write returns Err: expect panics
ChunkWriteFailed ==
    /\ wire' = Append(wire, [op |-> "wfail", k |-> Len(sent),
                             bytes |-> Chunk(ser, chunkNo)])
    /\ Panic("Write failed!")
    /\ written' = NoCount
    /\ UNCHANGED <<it, command, chunkNo, sc>>

\* one round of the chunk loop: port.write(chunk).expect("Write failed!")
WriteChunk ==
    /\ sc = "write"
    /\ exit = "running"
    /\ \/ ChunkWritten
       \/ ChunkWriteFailed
    /\ UNCHANGED <<input, cmd, ser, rd, ret, sent, replies>>

\* the one port.read into the 32-byte buffer, the decode of the bytes read
\* and the return
ReadReply ==
    /\ sc = "read"
    /\ exit = "running"
    /\ \E r \in ReadResults :
        /\ rd' = r
        /\ ret' = ReadOutcome(r)
        /\ replies' = Append(replies, ReadOutcome(r))
    /\ wire' = Append(wire, [op |-> "read", k |-> Len(sent), bytes |-> <<>>])
    /\ sc' = "ret"
    /\ written' = NoCount
    /\ UNCHANGED <<input, mainVars, cmd, ser, chunkNo, sent>>

\* send_command is left: its locals are gone
Returned ==
    /\ sc' = "idle"
    /\ cmd' = Cmd("None")
    /\ ser' = <<>>
    /\ chunkNo' = 0
    /\ written' = NoCount
    /\ rd' = NoRead
    /\ ret' = "None"

\* UnwrapPanics with the error dropped instead
UnwrapPanics_Never(r) == r \notin (Responses \cup FlasherErrors)

\* .unwrap() on the returned value
UnwrapPanics(r) == r \in FlasherErrors

\* the panic message of unwrap shows the error value
UnwrapMsg(r) == r

\* ----------------------------------------------------------------------- main
\* AfterUnwrap that goes on only for Ack
AfterUnwrap_AckOnly(r, next) ==
    IF r # Ack
    THEN Panic(UnwrapMsg(r))
    ELSE /\ pc' = next
         /\ UNCHANGED <<exit, panicMsg>>

\* the statement after a send_command(..).unwrap() whose value is r: the
\* panic of unwrap, or pc moves to next
AfterUnwrap(r, next) ==
    IF UnwrapPanics(r)
    THEN Panic(UnwrapMsg(r))
    ELSE /\ pc' = next
         /\ UNCHANGED <<exit, panicMsg>>

\* main returns
Return ==
    /\ pc' = "Exit"
    /\ exit' = "returned"
    /\ UNCHANGED panicMsg

\* line 109: send_command(Hello, ..)
CallHello ==
    /\ pc = "Hello"
    /\ Call(Hello, 0)
    /\ UNCHANGED <<input, mainVars>>

\* line 109: .unwrap(); the response is dropped
RetHello ==
    /\ pc = "Hello"
    /\ sc = "ret"
    /\ AfterUnwrap(ret, "Prepare")
    /\ Returned
    /\ UNCHANGED <<input, it, command, history>>

\* line 110: send_command(PrepareForUpdate, ..)
CallPrepare ==
    /\ pc = "Prepare"
    /\ Call(PrepareForUpdate, 0)
    /\ UNCHANGED <<input, mainVars>>

\* PrepareAcked without the test of the response
PrepareAcked_Any(resp) == resp \in Responses

\* line 111: if resp == Ack
PrepareAcked(resp) == resp = Ack

\* lines 110-111 and 123: .unwrap(), then the loop on Ack, the end of main
\* otherwise
RetPrepare ==
    /\ pc = "Prepare"
    /\ sc = "ret"
    /\ IF UnwrapPanics(ret) THEN Panic(UnwrapMsg(ret))
       ELSE IF PrepareAcked(ret)
       THEN pc' = "Loop" /\ UNCHANGED <<exit, panicMsg>>
       ELSE Return
    /\ Returned
    /\ UNCHANGED <<input, it, command, history>>

\* line 112: the for loop asks the iterator for the next command; the page
\* builder runs here, on the blocks not yet consumed
LoopNext ==
    /\ pc = "Loop"
    /\ sc = "idle"
    /\ exit = "running"
    /\ \E n \in {IterNext(blocks, offset, it)} :
           /\ it' = n.it
           /\ CASE n.kind = "some" ->
                     /\ command' = [cmd |-> n.cmd, blk |-> n.blk]
                     /\ pc' = "Write"
                     /\ UNCHANGED <<exit, panicMsg>>
                [] n.kind = "end" ->
                     /\ command' = NoCommand
                     /\ pc' = "Finish"
                     /\ UNCHANGED <<exit, panicMsg>>
                [] n.kind = "panic" ->
                     /\ command' = NoCommand
                     /\ Panic(n.msg)
    /\ UNCHANGED <<input, callVars, history>>

\* line 113: send_command(command, ..)
CallWrite ==
    /\ pc = "Write"
    /\ Call(command.cmd, command.blk)
    /\ UNCHANGED <<input, mainVars>>

\* WriteNacked without the panic on Nack
WriteNacked_Never(resp) == resp \notin Responses

\* line 115: if resp == Nack
WriteNacked(resp) == resp = Nack

\* lines 113-117: .unwrap(), the panic on Nack, else the next round
RetWrite ==
    /\ pc = "Write"
    /\ sc = "ret"
    /\ IF UnwrapPanics(ret) THEN Panic(UnwrapMsg(ret))
       ELSE IF WriteNacked(ret)
       THEN Panic("We received a NACK in response to a write. No bueno!")
       ELSE pc' = "Loop" /\ UNCHANGED <<exit, panicMsg>>
    /\ Returned
    /\ command' = NoCommand
    /\ UNCHANGED <<input, it, history>>

\* CallFinish that asks the device to compare the checksum instead
CallFinish_Compare ==
    /\ pc = "Finish"
    /\ Call(Cmd("CompareChecksum"), 0)
    /\ UNCHANGED <<input, mainVars>>

\* line 119: send_command(FinishedWriting, ..)
CallFinish ==
    /\ pc = "Finish"
    /\ Call(FinishedWriting, 0)
    /\ UNCHANGED <<input, mainVars>>

\* FinishAcked without the test of the response
FinishAcked_Any(r) == r \in Responses

\* line 120: if r == Ack
FinishAcked(r) == r = Ack

\* lines 119-120 and 122: .unwrap(), then MarkUpdated on Ack, the end of
\* main otherwise
RetFinish ==
    /\ pc = "Finish"
    /\ sc = "ret"
    /\ IF UnwrapPanics(ret) THEN Panic(UnwrapMsg(ret))
       ELSE IF FinishAcked(ret)
       THEN pc' = "Mark" /\ UNCHANGED <<exit, panicMsg>>
       ELSE Return
    /\ Returned
    /\ UNCHANGED <<input, it, command, history>>

\* line 121: send_command(MarkUpdated, ..)
CallMark ==
    /\ pc = "Mark"
    /\ Call(MarkUpdated, 0)
    /\ UNCHANGED <<input, mainVars>>

\* RetMark that takes a Nack for an error
RetMark_NackPanics ==
    /\ pc = "Mark"
    /\ sc = "ret"
    /\ IF ret # Ack THEN Panic(UnwrapMsg(ret)) ELSE Return
    /\ Returned
    /\ UNCHANGED <<input, it, command, history>>

\* lines 121-124: .unwrap(); the response is dropped and main returns
RetMark ==
    /\ pc = "Mark"
    /\ sc = "ret"
    /\ IF UnwrapPanics(ret) THEN Panic(UnwrapMsg(ret)) ELSE Return
    /\ Returned
    /\ UNCHANGED <<input, it, command, history>>

Next ==
    \/ CallHello
    \/ RetHello
    \/ CallPrepare
    \/ RetPrepare
    \/ LoopNext
    \/ CallWrite
    \/ RetWrite
    \/ CallFinish
    \/ RetFinish
    \/ CallMark
    \/ RetMark
    \/ WriteChunk
    \/ ReadReply

Spec == Init /\ [][Next]_vars

\* the program is sequential and every call on the port returns: a step that
\* can be taken is taken
FairSpec == Spec /\ WF_vars(Next)

\* ------------------------------------------------------------------ histories
IsPrefix(s, t) == Len(s) <= Len(t) /\ SubSeq(t, 1, Len(s)) = s

\* the command kind and source block of every send_command call, in order
SentKeys == [i \in 1..Len(sent) |-> <<sent[i].cmd.tag, sent[i].blk>>]

SentTags == [i \in 1..Len(sent) |-> sent[i].cmd.tag]

TagSent(t) == \E i \in 1..Len(sent) : sent[i].cmd.tag = t

\* the i-th exchange ended and its result was r
Replied(i, r) == i <= Len(replies) /\ replies[i] = r

\* the source blocks the page builder turns into a command
Writable(j) ==
    /\ blocks[j].parses
    /\ blocks[j].target_addr >= offset
    /\ blocks[j].data_len = 256

AllWritable == \A j \in 1..Len(blocks) : Writable(j)

AllAcked == \A i \in 1..Len(replies) : replies[i] = Ack

NoWriteFailed == \A w \in 1..Len(wire) : wire[w].op # "wfail"

\* Hello, PrepareForUpdate, one WritePage per block, FinishedWriting,
\* MarkUpdated
FullRun ==
    <<(<<"Hello", 0>>), (<<"PrepareForUpdate", 0>>)>>
    \o [j \in 1..Len(blocks) |-> <<"WritePage", j>>]
    \o <<(<<"FinishedWriting", 0>>), (<<"MarkUpdated", 0>>)>>

\* -------------------------------------------------------------------- claims
\* C1: over N blocks that all have target address >= offset and data length
\* 256, with every exchange answered Ack (and every write accepted), the
\* commands sent are at every moment a prefix of Hello, PrepareForUpdate,
\* WritePage of block 1..N, FinishedWriting, MarkUpdated, the run does not
\* panic, and when main has returned they are exactly these N+4 commands.
C1_AllAckRun ==
    (AllWritable /\ AllAcked /\ NoWriteFailed) =>
        /\ IsPrefix(SentKeys, FullRun)
        /\ exit # "panicked"
        /\ exit = "returned" =>
              /\ SentKeys = FullRun
              /\ Len(sent) = Len(blocks) + 4

C1_Witness ==
    /\ exit = "returned"
    /\ AllWritable /\ AllAcked /\ NoWriteFailed
    /\ Len(blocks) = 2
    /\ Len(sent) = 6
    /\ SentTags = <<"Hello", "PrepareForUpdate", "WritePage", "WritePage",
                    "FinishedWriting", "MarkUpdated">>

\* C2: once PrepareForUpdate is answered Nack, no WritePage, FinishedWriting
\* or MarkUpdated is ever sent, nothing panics, and main returns right after
\* that reply.
C2_DeclineSendsNothing ==
    Replied(2, Nack) =>
        /\ SentTags = <<"Hello", "PrepareForUpdate">>
        /\ exit # "panicked" /\ panicMsg = ""
        /\ \/ pc = "Prepare" /\ sc = "ret" /\ exit = "running"
           \/ pc = "Exit" /\ exit = "returned"

C2_Witness ==
    /\ Replied(2, Nack)
    /\ exit = "returned"
    /\ Len(blocks) = 2 /\ AllWritable

\* C3: a WritePage answered Nack is the last command of the run: nothing is
\* sent after it, it is not sent again, and the run panics as soon as main
\* looks at the reply.
C3_WriteNackAborts ==
    \A i \in 1..Len(sent) :
        (sent[i].cmd.tag = "WritePage" /\ Replied(i, Nack)) =>
            /\ i = Len(sent)
            /\ wire[Len(wire)] = [op |-> "read", k |-> i, bytes |-> <<>>]
            /\ \/ pc = "Write" /\ sc = "ret" /\ exit = "running"
               \/ /\ exit = "panicked"
                  /\ panicMsg = "We received a NACK in response to a write. No bueno!"

C3_Witness ==
    /\ exit = "panicked"
    /\ Len(blocks) = 2 /\ AllWritable
    /\ Len(sent) = 3
    /\ Replied(3, Nack)
    /\ sent[3].cmd.tag = "WritePage" /\ sent[3].blk = 1

\* C4: an exchange that fails with NoResponse or CouldntDeserialize, whatever
\* its command, is the last one: no later command is started, no later byte
\* is written, and the run panics with that error as soon as main looks at
\* the result; after a failed Hello only Hello was ever sent.
C4_TransportFailureAborts ==
    \A i \in 1..Len(replies) :
        replies[i] \in FlasherErrors =>
            /\ i = Len(sent)
            /\ wire[Len(wire)] = [op |-> "read", k |-> i, bytes |-> <<>>]
            /\ i = 1 => SentTags = <<"Hello">>
            /\ \/ sc = "ret" /\ exit = "running" /\ ret = replies[i]
               \/ exit = "panicked" /\ panicMsg = replies[i]

C4_Witness ==
    /\ exit = "panicked"
    /\ panicMsg = NoResponse
    /\ Len(sent) = 3
    /\ sent[3].cmd.tag = "WritePage"
    /\ Len(blocks) = 2 /\ AllWritable

\* C5: a WritePage is sent only after PrepareForUpdate was answered Ack;
\* FinishedWriting only after the WritePage of every block the page builder
\* turns into a command was sent and answered Ack; MarkUpdated only right
\* after FinishedWriting was answered Ack.
C5_Gates ==
    \A i \in 1..Len(sent) :
        /\ sent[i].cmd.tag = "WritePage" =>
              i > 2 /\ sent[2].cmd.tag = "PrepareForUpdate" /\ Replied(2, Ack)
        /\ sent[i].cmd.tag = "FinishedWriting" =>
              \A j \in 1..Len(blocks) :
                  Writable(j) =>
                      \E h \in 1..(i - 1) :
                          /\ sent[h].cmd.tag = "WritePage"
                          /\ sent[h].blk = j
                          /\ Replied(h, Ack)
        /\ sent[i].cmd.tag = "MarkUpdated" =>
              i > 1 /\ sent[i - 1].cmd.tag = "FinishedWriting" /\ Replied(i - 1, Ack)

C5_Witness ==
    /\ TagSent("MarkUpdated")
    /\ Len(blocks) = 2 /\ AllWritable
    /\ Replied(1, Nack)

\* the terminal states the specification names
Completed == exit = "returned" /\ TagSent("MarkUpdated")

Declined == exit = "returned" /\ Replied(2, Nack)

Aborted == exit = "panicked"

\* C6: a run that has ended is completed (MarkUpdated was sent), declined
\* (PrepareForUpdate was answered Nack) or aborted (a panic), and exactly one
\* of the three.
C6_ThreeTerminalStates ==
    exit # "running" =>
        /\ Completed \/ Declined \/ Aborted
        /\ ~(Completed /\ Declined)
        /\ ~(Completed /\ Aborted)
        /\ ~(Declined /\ Aborted)

\* C7: a read that returns Ok(0) makes send_command return NoResponse.
C7_EmptyReadIsNoResponse ==
    (sc = "ret" /\ rd.kind = "ok" /\ Len(rd.buf) = 0) => ret = NoResponse

\* the bytes of the chunks written for exchange k among wire[1..w], in order
RECURSIVE WrittenBytes(_, _)
WrittenBytes(k, w) ==
    IF w = 0 THEN <<>>
    ELSE IF wire[w].op = "write" /\ wire[w].k = k
    THEN WrittenBytes(k, w - 1) \o wire[w].bytes
    ELSE WrittenBytes(k, w - 1)

\* C8: at most one exchange is open; a chunk of command k > 1 is offered to
\* the port only after the read of exchange k-1 was made and gave a Response;
\* no command is sent twice (the WritePage of a block counts per block).
C8_OneInFlightNoRetry ==
    /\ Len(sent) - Len(replies) \in {0, 1}
    /\ \A w \in 1..Len(wire) :
          /\ wire[w].k <= Len(sent)
          /\ w = 1 => wire[w].k = 1
          /\ w > 1 =>
                \/ wire[w].k = wire[w - 1].k /\ wire[w - 1].op = "write"
                \/ /\ wire[w].k = wire[w - 1].k + 1
                   /\ wire[w - 1].op = "read"
                   /\ replies[wire[w - 1].k] \in Responses
    /\ \A i, j \in 1..Len(sent) : i # j => SentKeys[i] # SentKeys[j]

C8_Witness ==
    /\ Len(sent) = 6
    /\ Len(blocks) = 2
    /\ blocks[1] = blocks[2]
    /\ sent[3].cmd = sent[4].cmd
    /\ exit = "returned"

C10_WriteFailureAborts ==
    \A w \in 1..Len(wire) :
        wire[w].op = "wfail" =>
            /\ w = Len(wire)
            /\ exit = "panicked" /\ panicMsg = "Write failed!" /\ pc = "Exit"
            /\ Len(sent) = wire[w].k
            /\ Len(replies) = wire[w].k - 1

C10_Witness ==
    /\ Len(wire) > 3
    /\ wire[Len(wire)].op = "wfail"
    /\ wire[Len(wire) - 1] = [op |-> "write", k |-> 3, bytes |-> Chunk(ser, 2)]
    /\ cmd.tag = "WritePage"
    /\ chunkNo = 3
    /\ exit = "panicked"

\* the WritePage commands sent so far, as positions of sent
WritesSent == {i \in 1..Len(sent) : sent[i].cmd.tag = "WritePage"}

\* a WritePage for source block j was sent, or is the command the loop holds
Yielded(j) == command.blk = j \/ \E i \in WritesSent : sent[i].blk = j

\* C11 as claimed: every block at or above the offset that the page builder
\* has consumed yielded a WritePage.
C11_EveryBlockAtOrAboveYields ==
    \A j \in 1..it :
        (blocks[j].parses /\ blocks[j].target_addr >= offset) => Yielded(j)

\* C11 amended: a consumed block below the offset yields nothing; a consumed
\* block at or above the offset with data length 256 yields one WritePage,
\* whose relative address is target address - offset and not negative (the
\* u32 subtraction is made only when offset <= target address, so it never
\* borrows) and whose page is the block's data; the commands are sent in the
\* order of their blocks.
C11_OffsetFiltering ==
    /\ \A j \in 1..it :
          /\ (blocks[j].parses /\ blocks[j].target_addr < offset) => ~Yielded(j)
          /\ Writable(j) =>
                /\ Yielded(j)
                /\ Cardinality({i \in WritesSent : sent[i].blk = j}) <= 1
    /\ \A i \in WritesSent :
          LET b == blocks[sent[i].blk]
          IN  /\ sent[i].blk \in 1..it
              /\ b.parses /\ b.target_addr >= offset
              /\ sent[i].cmd.addr = b.target_addr - offset
              /\ sent[i].cmd.addr >= 0
              /\ sent[i].cmd.data = SubSeq(b.data, 1, 256)
    /\ \A i, h \in WritesSent : i < h => sent[i].blk < sent[h].blk

C11_Witness ==
    /\ Len(blocks) = 2
    /\ blocks[1].parses /\ blocks[1].target_addr < offset
    /\ Writable(2) /\ blocks[2].target_addr > offset
    /\ WritesSent = {3}
    /\ sent[3].blk = 2
    /\ sent[3].cmd.addr = 256
    /\ TagSent("FinishedWriting")

\* a parsed block whose data length is not 256
Short(j) == blocks[j].parses /\ blocks[j].data_len # 256

InvalidBlockLength == "Non-256 length block"

\* C12 as claimed: a run over a file that holds a block of another length
\* than 256 ends with the invalid-block-length failure, whatever the device
\* replies (here: every chunk is accepted and every reply decodes).
C12_AnyShortBlockAborts ==
    ( /\ exit # "running"
      /\ NoWriteFailed
      /\ \A i \in 1..Len(replies) : replies[i] \in Responses
      /\ \A j \in 1..Len(blocks) : blocks[j].parses
      /\ \E j \in 1..Len(blocks) : Short(j) ) =>
        exit = "panicked" /\ panicMsg = InvalidBlockLength

\* C12 amended: the page builder runs only after PrepareForUpdate was
\* answered Ack; when it reaches a block at or above the offset whose data
\* length is not 256 the run panics with the invalid-block-length failure and
\* the block yields nothing; a block below the offset is skipped, whatever
\* its length, and the builder goes on; the failure is raised for no other
\* block.
C12_ShortBlockAtOrAboveAborts ==
    /\ it > 0 => Replied(2, Ack)
    /\ \A j \in 1..it :
          /\ (Short(j) /\ blocks[j].target_addr >= offset) =>
                /\ it = j
                /\ exit = "panicked" /\ panicMsg = InvalidBlockLength
                /\ ~Yielded(j)
          /\ (Short(j) /\ blocks[j].target_addr < offset) =>
                /\ ~Yielded(j)
                /\ panicMsg = InvalidBlockLength => it > j
    /\ panicMsg = InvalidBlockLength =>
          it >= 1 /\ Short(it) /\ blocks[it].target_addr >= offset

C12_Witness ==
    /\ Len(blocks) = 2
    /\ Short(1) /\ blocks[1].target_addr < offset
    /\ Short(2) /\ blocks[2].target_addr >= offset
    /\ it = 2
    /\ exit = "panicked" /\ panicMsg = InvalidBlockLength

\* C13: when the run panics with the invalid-block-length failure, nothing
\* was sent for the block that raised it, no exchange is open, neither
\* FinishedWriting nor MarkUpdated was sent, and the WritePage of every
\* writable block ahead of it in the file was sent and answered Ack.
C13_LazyAbort ==
    panicMsg = InvalidBlockLength =>
        /\ exit = "panicked"
        /\ \A i \in 1..Len(sent) : sent[i].blk # it
        /\ Len(replies) = Len(sent)
        /\ wire[Len(wire)] = [op |-> "read", k |-> Len(sent), bytes |-> <<>>]
        /\ ~TagSent("FinishedWriting") /\ ~TagSent("MarkUpdated")
        /\ \A j \in 1..(it - 1) :
              Writable(j) =>
                  \E i \in WritesSent : sent[i].blk = j /\ Replied(i, Ack)
        /\ Len(sent) = 2 + Cardinality({j \in 1..(it - 1) : Writable(j)})

C13_Witness ==
    /\ panicMsg = InvalidBlockLength
    /\ Len(blocks) = 2
    /\ Writable(1)
    /\ Short(2) /\ blocks[2].target_addr >= offset
    /\ SentTags = <<"Hello", "PrepareForUpdate", "WritePage">>
    /\ replies[3] = Ack

\* the bytes of buf ahead of its first zero byte, all of buf if it has none
Stuffed(buf) == SubSeq(buf, 1, Position(buf, 0, 1) - 1)

\* the first byte the stuffed bytes x stand for, when x has two bytes or more
FirstUnstuffed(x) == IF x[1] = 1 THEN 0 ELSE x[2]

VariantOf(r) == IF r = Ack THEN 0 ELSE 1

C15_Terminates ==
    /\ [](Len(sent) <= Len(blocks) + 4)
    /\ <>(exit # "running")

C15_Witness ==
    /\ exit = "returned"
    /\ Len(blocks) = 2
    /\ Len(sent) = Len(blocks) + 4
    /\ Replied(6, Nack)

\* the write calls of the running send_command, as positions of wire
Offers == {w \in 1..Len(wire) : wire[w].k = Len(sent) /\ wire[w].op # "read"}

\* the position of its first write call
FirstOffer ==
    Len(wire) - Cardinality(Offers) + 1
        - (IF wire[Len(wire)].op = "read" THEN 1 ELSE 0)

\* C16: the i-th write call of a send_command offers the bytes
\* 16(i-1)+1 .. min(16i, length) of the frame: exactly 16 bytes except for the
\* last chunk, never none, in frame order, every byte of the frame once when
\* the read is made; a write that reports fewer bytes than the chunk has is
\* followed by the next chunk (or the read), not by the same bytes and not by
\* a panic.
C16_ChunksOfferedOnce ==
    (sc # "idle" /\ wire # <<>>) =>
        /\ \A w \in Offers :
              /\ w >= FirstOffer
              /\ wire[w].bytes =
                    SubSeq(ser, 16 * (w - FirstOffer) + 1,
                           Min(16 * (w - FirstOffer + 1), Len(ser)))
              /\ Len(wire[w].bytes) \in 1..16
              /\ Len(wire[w].bytes) < 16 =>
                    16 * (w - FirstOffer) + Len(wire[w].bytes) = Len(ser)
        /\ sc \in {"read", "ret"} =>
              /\ 16 * Cardinality(Offers) >= Len(ser)
              /\ 16 * (Cardinality(Offers) - 1) < Len(ser)
        /\ (written # NoCount /\ written < Len(wire[Len(wire)].bytes)) =>
              /\ wire[Len(wire)].op = "write"
              /\ chunkNo = Cardinality(Offers) + 1
              /\ exit = "running"
              /\ sc = (IF 16 * Cardinality(Offers) >= Len(ser)
                       THEN "read" ELSE "write")

\* the third chunk of a WritePage frame was written short and the loop goes on
C16_Witness ==
    /\ cmd.tag = "WritePage"
    /\ sc = "write"
    /\ chunkNo = 4
    /\ written = 8
    /\ wire[Len(wire)].bytes = SubSeq(ser, 33, 48)
    /\ Len(ser) > 256
    /\ exit = "running"

\* the run has ended with Hello the only command sent
StoppedAtHandshake == exit # "running" /\ Len(sent) = 1

\* C17: once the Hello exchange has returned Ack or Nack the run goes on: it
\* has not ended while Hello is the only command sent, PrepareForUpdate is
\* the second command and it is sent; a run that ends at the handshake ended
\* by the panic of a failed write or of a read that gave no Response.
C17_HelloDoesNotGate ==
    /\ [](\A r \in Responses :
            Replied(1, r) =>
                /\ ~StoppedAtHandshake
                /\ Len(sent) >= 2 => sent[2].cmd = PrepareForUpdate)
    /\ (\E r \in Responses : Replied(1, r)) ~>
          (Len(sent) >= 2 /\ sent[2].cmd = PrepareForUpdate)
    /\ [](StoppedAtHandshake =>
            /\ exit = "panicked"
            /\ \/ wire[Len(wire)].op = "wfail" /\ replies = <<>>
               \/ Len(replies) = 1 /\ replies[1] \in FlasherErrors)

C17_Witness ==
    /\ Replied(1, Nack)
    /\ Len(sent) = 2
    /\ sent[2].cmd = PrepareForUpdate
    /\ sc = "write"
    /\ exit = "running"

\* the command kinds main sends
KindsSent ==
    {"Hello", "PrepareForUpdate", "WritePage", "FinishedWriting", "MarkUpdated"}

\* C18: every command sent is a Hello, PrepareForUpdate, WritePage,
\* FinishedWriting or MarkUpdated, so none is a CompareChecksum; the same
\* holds for the command of the running send_command.
C18_NeverCompareChecksum ==
    /\ \A i \in 1..Len(sent) :
          /\ sent[i].cmd.tag \in KindsSent
          /\ sent[i].cmd.tag # "CompareChecksum"
    /\ sc # "idle" => cmd.tag \in KindsSent

\* a whole run over one block: every kind main sends was sent
C18_Witness ==
    /\ exit = "returned"
    /\ Len(blocks) = 1
    /\ {sent[i].cmd.tag : i \in 1..Len(sent)} = KindsSent
    /\ Replied(5, Ack)

\* the MarkUpdated exchange has ended and its result was r
MarkReplied(r) ==
    /\ sent # <<>>
    /\ sent[Len(sent)].cmd = MarkUpdated
    /\ Replied(Len(sent), r)

\* C19: once the MarkUpdated exchange has returned Ack or Nack, MarkUpdated
\* stays the last command sent, nothing panics and main returns; once it
\* has returned an error, or one of its writes failed, the run panics and
\* MarkUpdated stays the last command sent.
C19_MarkReplyIgnored ==
    /\ [](\A r \in Responses :
            MarkReplied(r) =>
                /\ exit # "panicked" /\ panicMsg = ""
                /\ \/ pc = "Mark" /\ sc = "ret" /\ exit = "running"
                   \/ pc = "Exit" /\ exit = "returned")
    /\ (\E r \in Responses : MarkReplied(r)) ~> (exit = "returned")
    /\ [](\A e \in FlasherErrors :
            MarkReplied(e) =>
                \/ pc = "Mark" /\ sc = "ret" /\ exit = "running"
                \/ exit = "panicked" /\ panicMsg = e)
    /\ (\E e \in FlasherErrors : MarkReplied(e)) ~> (exit = "panicked")
    /\ []((TagSent("MarkUpdated") /\ wire[Len(wire)].op = "wfail") =>
            /\ exit = "panicked"
            /\ sent[Len(sent)].cmd = MarkUpdated)

\* MarkUpdated was answered Nack and main has returned
C19_Witness ==
    /\ MarkReplied(Nack)
    /\ exit = "returned"
    /\ panicMsg = ""
    /\ Len(blocks) = 1
    /\ Len(sent) = 5

====
